---- MODULE Spec2Model ----
(***************************************************************************)
(* autofee: unit registry, monthly meter readings and the proportional     *)
(* allocation of building costs (BillCalculator), over the four tables of  *)
(* Database.ts.                                                            *)
(*                                                                         *)
(* Numbers.  JavaScript doubles are carried as exact integers and exact    *)
(* rationals <<num, den>> (den > 0); Math.round is floor(x + 1/2).         *)
(* Electricity readings are in kWh, money in won, areas in square metres,  *)
(* water readings in hundredths of a cubic metre (the sample readings      *)
(* 89.7 and 93.36 are 8970 and 9336).  Text typed into a form field is a   *)
(* tuple of one-character strings, parsed by ParseFloat.                   *)
(*                                                                         *)
(* Tables are sets of rows.  The columns id (AUTOINCREMENT) and created_at *)
(* are read by no code of the repository and are left out.                 *)
(*                                                                         *)
(* database is the App state of that name: "open" once initializeDatabase  *)
(* has set it, "null" when the initialization failed.  localStorage is the *)
(* item under the key autofee_database (<<>> when absent) and file is the  *)
(* last backup file the browser downloaded (<<>> when none).               *)
(* pendingImport is the importFromFile call that is suspended at an await  *)
(* (<<>> when none), reloadTimer the set of pending                        *)
(* setTimeout(() => window.location.reload(), 1000) timers, and range the  *)
(* run of BillOutput.loadRangeBills.                                       *)
(***************************************************************************)
EXTENDS Integers, Sequences, FiniteSets, TLC

VARIABLES units, meter_readings, monthly_bills, unit_bills,
          message, lastOp, calc, ops,
          database, localStorage, file, pendingImport, reloadTimer, range

vars == <<units, meter_readings, monthly_bills, unit_bills,
          message, lastOp, calc, ops, database, localStorage, file,
          pendingImport, reloadTimer, range>>

(***************************************************************************)
(* Bounds and input domains                                                *)
(***************************************************************************)
\* number of operator actions in a run
MaxOps == 3

\* unit ids the add-unit form accepts (any non-empty text), in the order of
\* SELECT ... ORDER BY id
UnitIdSeq == <<"1' OR '1", "601A", "601B", "701">>

UnitIds == {UnitIdSeq[i] : i \in 1..Len(UnitIdSeq)}

\* billing periods <<year, month>> the operator selects
Periods == {<<2023, 12>>, <<2024, 1>>, <<2024, 2>>}

(***************************************************************************)
(* Numbers                                                                 *)
(***************************************************************************)
Max(a, b) == IF a >= b THEN a ELSE b

Abs(a) == IF a >= 0 THEN a ELSE 0 - a

RECURSIVE Gcd(_, _)
Gcd(a, b) == IF b = 0 THEN a ELSE Gcd(b, a % b)

\* the rational n/d in lowest terms, d > 0
Rat(n, d) ==
    LET g == Gcd(Abs(n), d)
    IN  <<n \div g, d \div g>>

Zero == Rat(0, 1)

Lcm(a, b) == (a \div Gcd(a, b)) * b

\* p + q over the least common denominator
RatAdd(p, q) ==
    LET l == Lcm(p[2], q[2])
    IN  Rat(p[1] * (l \div p[2]) + q[1] * (l \div q[2]), l)

\* faulty variant: Math.floor in place of Math.round
Round_Floor(q) == q[1] \div q[2]

\* Math.round(x) with x = q[1]/q[2]: floor(x + 1/2), halves go up
Round(q) ==
    LET whole == q[1] \div q[2]
        rest  == q[1] % q[2]
    IN  whole + (IF 2 * rest >= q[2] THEN 1 ELSE 0)

(***************************************************************************)
(* Form text and parseFloat                                                *)
(***************************************************************************)
Digits == {"0", "1", "2", "3", "4", "5", "6", "7", "8", "9"}

DigitVal(c) ==
    CASE c = "0" -> 0 [] c = "1" -> 1 [] c = "2" -> 2 [] c = "3" -> 3
      [] c = "4" -> 4 [] c = "5" -> 5 [] c = "6" -> 6 [] c = "7" -> 7
      [] c = "8" -> 8 [] c = "9" -> 9

\* NaN is <<>>, a number n is <<n>>
NaN == <<>>

IsNaN(x) == x = <<>>

RECURSIVE DigitRun(_, _, _, _)
\* the longest run of digits of s from position i: <<value, digits read>>
DigitRun(s, i, acc, n) ==
    IF i <= Len(s) /\ s[i] \in Digits
    THEN DigitRun(s, i + 1, 10 * acc + DigitVal(s[i]), n + 1)
    ELSE <<acc, n>>

\* parseFloat on text of digits, an optional leading "-" and other
\* characters: the leading number, NaN when the text starts with none
ParseFloat(s) ==
    LET neg   == Len(s) >= 1 /\ s[1] = "-"
        first == IF neg THEN 2 ELSE 1
        run   == DigitRun(s, first, 0, 0)
    IN  IF run[2] = 0 THEN NaN
        ELSE <<IF neg THEN 0 - run[1] ELSE run[1]>>

\* `text || '0'`: the empty string is falsy
OrZeroText(s) == IF s = <<>> THEN <<"0">> ELSE s

\* `parseFloat(text) || 0`: NaN and 0 are falsy
OrZero(x) == IF IsNaN(x) THEN 0 ELSE x[1]

(***************************************************************************)
(* Database.ts: rows, queries and upserts                                  *)
(***************************************************************************)
Unit(id, name, area) == [id |-> id, name |-> name, area |-> area]

MeterReading(unit_id, year, month, e, w) ==
    [unit_id |-> unit_id, year |-> year, month |-> month,
     electricity_reading |-> e, water_reading |-> w]

MonthlyBill(year, month, e, w, m) ==
    [year |-> year, month |-> month, total_electricity_cost |-> e,
     total_water_cost |-> w, total_management_cost |-> m]

UnitBill(unit_id, year, month, e, w, m, t) ==
    [unit_id |-> unit_id, year |-> year, month |-> month,
     electricity_cost |-> e, water_cost |-> w, management_cost |-> m,
     total_cost |-> t]

\* insertDefaultData: INSERT OR REPLACE of the two default units
insertDefaultData(us) ==
    {u \in us : u.id \notin {"601A", "601B"}}
        \cup {Unit("601A", "601A-ho", 60), Unit("601B", "601B-ho", 120)}

\* faulty variant: a plain INSERT, a row with the same id stays
saveUnit_InsertOnly(us, unit) == us \cup {unit}

\* INSERT OR REPLACE INTO units: the primary key is id
saveUnit(us, unit) == {u \in us : u.id # unit.id} \cup {unit}

\* INSERT OR REPLACE INTO meter_readings: UNIQUE(unit_id, year, month)
saveMeterReading(mr, reading) ==
    {r \in mr : ~(r.unit_id = reading.unit_id /\ r.year = reading.year
                    /\ r.month = reading.month)} \cup {reading}

\* faulty variant: a plain INSERT, the row of the same period stays
saveMonthlyBill_InsertOnly(mb, bill) == mb \cup {bill}

\* faulty variant: the MonthlyBill row is not written
saveMonthlyBill_Skip(mb, bill) == mb

\* INSERT OR REPLACE INTO monthly_bills: UNIQUE(year, month)
saveMonthlyBill(mb, bill) ==
    {b \in mb : ~(b.year = bill.year /\ b.month = bill.month)} \cup {bill}

\* faulty variant: a plain INSERT, the row of the same key stays
saveUnitBill_InsertOnly(ub, bill) == ub \cup {bill}

\* faulty variant: the costs of the new bill are added to the row of the same key
saveUnitBill_Accumulate(ub, bill) ==
    LET old == {b \in ub : b.unit_id = bill.unit_id /\ b.year = bill.year
                             /\ b.month = bill.month}
    IN  IF old = {} THEN ub \cup {bill}
        ELSE LET o == CHOOSE b \in old : TRUE
             IN  (ub \ old)
                   \cup {[bill EXCEPT
                            !.electricity_cost = @ + o.electricity_cost,
                            !.water_cost = @ + o.water_cost,
                            !.management_cost = @ + o.management_cost,
                            !.total_cost = @ + o.total_cost]}

\* INSERT OR REPLACE INTO unit_bills: UNIQUE(unit_id, year, month)
saveUnitBill(ub, bill) ==
    {b \in ub : ~(b.unit_id = bill.unit_id /\ b.year = bill.year
                    /\ b.month = bill.month)} \cup {bill}

\* SELECT * FROM units ORDER BY id, as a sequence
getUnits(us) ==
    LET present == SelectSeq(UnitIdSeq, LAMBDA id : \E u \in us : u.id = id)
    IN  [i \in 1..Len(present) |-> CHOOSE u \in us : u.id = present[i]]

\* faulty variant: the rows of every period
getMeterReadings_AnyPeriod(mr, year, month) == mr

\* SELECT * FROM meter_readings WHERE year = ? AND month = ?
getMeterReadings(mr, year, month) ==
    {r \in mr : r.year = year /\ r.month = month}

\* SELECT * FROM unit_bills WHERE year = ? AND month = ?
getUnitBills(ub, year, month) ==
    {b \in ub : b.year = year /\ b.month = month}

\* SELECT * FROM monthly_bills WHERE year = ? AND month = ?: <<>> is null
getMonthlyBill(mb, year, month) ==
    LET rows == {b \in mb : b.year = year /\ b.month = month}
    IN  IF rows = {} THEN <<>> ELSE <<CHOOSE b \in rows : TRUE>>

\* faulty variant: month - 1 without the roll-over to December of year - 1
getPreviousMonthReading_NoRollover(mr, unitId, year, month) ==
    LET rows == {r \in mr : r.unit_id = unitId /\ r.year = year
                              /\ r.month = month - 1}
    IN  IF rows = {} THEN <<>> ELSE <<CHOOSE r \in rows : TRUE>>

\* the reading of the month before (year, month): <<>> is null
getPreviousMonthReading(mr, unitId, year, month) ==
    LET prevMonth == IF month - 1 = 0 THEN 12 ELSE month - 1
        prevYear  == IF month - 1 = 0 THEN year - 1 ELSE year
        rows == {r \in mr : r.unit_id = unitId /\ r.year = prevYear
                              /\ r.month = prevMonth}
    IN  IF rows = {} THEN <<>> ELSE <<CHOOSE r \in rows : TRUE>>

\* currentReadings.find(r => r.unit_id === unitId): <<>> is undefined
FindReading(currentReadings, unitId) ==
    LET rows == {r \in currentReadings : r.unit_id = unitId}
    IN  IF rows = {} THEN <<>> ELSE <<CHOOSE r \in rows : TRUE>>

(***************************************************************************)
(* Database.ts: export, local storage and backup files                     *)
(***************************************************************************)
RECURSIVE RowsAsSeq(_)
\* the rows of a table in the order they lie in the database file
RowsAsSeq(rows) ==
    IF rows = {} THEN <<>>
    ELSE LET r == CHOOSE x \in rows : TRUE
         IN  <<r>> \o RowsAsSeq(rows \ {r})

\* faulty variant: the export leaves the unit_bills table out
export_WithoutUnitBills(us, mr, mb, ub) ==
    [units |-> RowsAsSeq(us), meter_readings |-> RowsAsSeq(mr),
     monthly_bills |-> RowsAsSeq(mb), unit_bills |-> <<>>]

\* this.db.export(): the bytes of the database file, table by table
export(us, mr, mb, ub) ==
    [units |-> RowsAsSeq(us), meter_readings |-> RowsAsSeq(mr),
     monthly_bills |-> RowsAsSeq(mb), unit_bills |-> RowsAsSeq(ub)]

Rows(seq) == {seq[i] : i \in 1..Len(seq)}

\* faulty variant: the meter_readings table is not read back
OpenDatabase_WithoutReadings(data) ==
    [units |-> Rows(data.units), meter_readings |-> {},
     monthly_bills |-> Rows(data.monthly_bills),
     unit_bills |-> Rows(data.unit_bills)]

\* new SQL.Database(data): the four tables of the database file
OpenDatabase(data) ==
    [units |-> Rows(data.units), meter_readings |-> Rows(data.meter_readings),
     monthly_bills |-> Rows(data.monthly_bills),
     unit_bills |-> Rows(data.unit_bills)]

\* btoa(String.fromCharCode.apply(null, Array.from(data)))
btoa(data) == <<"base64", data>>

\* Uint8Array.from(atob(base64Data), c => c.charCodeAt(0))
atob(base64Data) == base64Data[2]

\* saveToLocalStorage: the new value of the local-storage item
saveToLocalStorage(us, mr, mb, ub) == <<btoa(export(us, mr, mb, ub))>>

\* autoSave
autoSave(us, mr, mb, ub) == saveToLocalStorage(us, mr, mb, ub)

\* faulty variant: the default units are inserted into the loaded database
loadFromLocalStorage_WithDefaults(item, engineLoads) ==
    IF item = <<>> \/ ~engineLoads THEN <<>>
    ELSE <<[OpenDatabase(atob(item[1])) EXCEPT
               !.units = insertDefaultData(@)]>>

\* loadFromLocalStorage: <<>> is the result false (no item, or initSqlJs
\* rejected), <<tables>> the database it opened
loadFromLocalStorage(item, engineLoads) ==
    IF item = <<>> \/ ~engineLoads THEN <<>>
    ELSE <<OpenDatabase(atob(item[1]))>>

\* the four tables in memory
Tables ==
    [units |-> units, meter_readings |-> meter_readings,
     monthly_bills |-> monthly_bills, unit_bills |-> unit_bills]

\* faulty variant: the rows of the file are added to the tables in memory
importFromFile_Merge(data, current) ==
    LET db == OpenDatabase(data)
    IN  [units |-> current.units \cup db.units,
         meter_readings |-> current.meter_readings \cup db.meter_readings,
         monthly_bills |-> current.monthly_bills \cup db.monthly_bills,
         unit_bills |-> current.unit_bills \cup db.unit_bills]

\* importFromFile after its awaits: this.db = new SQL.Database(data)
\* replaces the database in memory (current)
importFromFile(data, current) == OpenDatabase(data)

\* the tables after initialize(): createTables and insertDefaultData
NewDatabase ==
    [units |-> insertDefaultData({}), meter_readings |-> {},
     monthly_bills |-> {}, unit_bills |-> {}]

(***************************************************************************)
(* BillCalculator.ts                                                       *)
(***************************************************************************)
\* faulty variant: the difference without Math.max(0, ...)
calculateElectricityUsage_NoClamp(currentReading, previousReading) ==
    IF previousReading = <<>> THEN 0
    ELSE currentReading.electricity_reading
             - previousReading[1].electricity_reading

\* faulty variant: a missing previous reading counts as a previous reading of 0
calculateElectricityUsage_PreviousDefaultsToZero(currentReading, previousReading) ==
    IF previousReading = <<>>
    THEN Max(0, currentReading.electricity_reading)
    ELSE Max(0, currentReading.electricity_reading
                    - previousReading[1].electricity_reading)

\* calculateElectricityUsage: previousReading is <<>> (null) or <<row>>
calculateElectricityUsage(currentReading, previousReading) ==
    IF previousReading = <<>> THEN 0
    ELSE Max(0, currentReading.electricity_reading
                    - previousReading[1].electricity_reading)

\* calculateWaterUsage
calculateWaterUsage(currentReading, previousReading) ==
    IF previousReading = <<>> THEN 0
    ELSE Max(0, currentReading.water_reading
                    - previousReading[1].water_reading)

RECURSIVE SumElectricityUsage(_, _, _, _, _, _)
SumElectricityUsage(unitSeq, i, currentReadings, mr, year, month) ==
    IF i > Len(unitSeq) THEN 0
    ELSE LET cur  == FindReading(currentReadings, unitSeq[i].id)
             rest == SumElectricityUsage(unitSeq, i + 1, currentReadings,
                                         mr, year, month)
         IN  IF cur = <<>> THEN rest
             ELSE calculateElectricityUsage(cur[1],
                      getPreviousMonthReading(mr, unitSeq[i].id, year, month))
                  + rest

RECURSIVE SumElectricityUsageOfRows(_, _, _, _)
SumElectricityUsageOfRows(rows, mr, year, month) ==
    IF rows = {} THEN 0
    ELSE LET r == CHOOSE x \in rows : TRUE
         IN  calculateElectricityUsage(r,
                 getPreviousMonthReading(mr, r.unit_id, year, month))
             + SumElectricityUsageOfRows(rows \ {r}, mr, year, month)

\* faulty variant: the total is taken over every reading of the month, also the
\* readings of units that are not in the registry
calculateTotalElectricityUsage_AllReadings(unitSeq, currentReadings, mr, year, month) ==
    SumElectricityUsageOfRows(currentReadings, mr, year, month)

\* calculateTotalElectricityUsage: the usage of every unit with a reading
\* in the target month
calculateTotalElectricityUsage(unitSeq, currentReadings, mr, year, month) ==
    SumElectricityUsage(unitSeq, 1, currentReadings, mr, year, month)

RECURSIVE SumWaterUsage(_, _, _, _, _, _)
SumWaterUsage(unitSeq, i, currentReadings, mr, year, month) ==
    IF i > Len(unitSeq) THEN 0
    ELSE LET cur  == FindReading(currentReadings, unitSeq[i].id)
             rest == SumWaterUsage(unitSeq, i + 1, currentReadings,
                                   mr, year, month)
         IN  IF cur = <<>> THEN rest
             ELSE calculateWaterUsage(cur[1],
                      getPreviousMonthReading(mr, unitSeq[i].id, year, month))
                  + rest

\* calculateTotalWaterUsage
calculateTotalWaterUsage(unitSeq, currentReadings, mr, year, month) ==
    SumWaterUsage(unitSeq, 1, currentReadings, mr, year, month)

RECURSIVE SumArea(_, _)
SumArea(unitSeq, i) ==
    IF i > Len(unitSeq) THEN 0 ELSE unitSeq[i].area + SumArea(unitSeq, i + 1)

\* units.reduce((sum, unit) => sum + unit.area, 0)
TotalArea(unitSeq) == SumArea(unitSeq, 1)

\* a / b as a double: <<n, 0>> stands for a result that is no finite
\* number (x / 0)
Div(a, b) == IF b = 0 THEN <<a, 0>> ELSE Rat(a, b)

IsFinite(q) == q[2] > 0

\* faulty variant: the share without the totalUsage > 0 guard
ElectricityCost_NoGuard(usage, totalUsage, totalCost) ==
    Div(usage * totalCost, totalUsage)

\* totalUsage > 0 ? (usage / totalUsage) * totalCost : 0
ElectricityCost(usage, totalUsage, totalCost) ==
    IF totalUsage > 0 THEN Div(usage * totalCost, totalUsage) ELSE Zero

WaterCost(usage, totalUsage, totalCost) ==
    IF totalUsage > 0 THEN Div(usage * totalCost, totalUsage) ELSE Zero

\* faulty variant: the operands of the division swapped
ManagementCost_Swapped(area, totalArea, totalManagementCost) ==
    Div(totalArea * totalManagementCost, area)

\* (unit.area / totalArea) * totalManagementCost
ManagementCost(area, totalArea, totalManagementCost) ==
    Div(area * totalManagementCost, totalArea)

\* the integer part and the fractional part of q
Whole(q) == q[1] \div q[2]

Frac(q) == <<q[1] % q[2], q[2]>>

\* total_cost: Math.round(electricityCost + waterCost + managementCost).
\* The sum is formed as the three integer parts plus the sum of the three
\* fractional parts, which keeps the exact arithmetic within 32 bits.
TotalCost(electricityCost, waterCost, managementCost) ==
    Whole(electricityCost) + Whole(waterCost) + Whole(managementCost)
        + Round(RatAdd(RatAdd(Frac(electricityCost), Frac(waterCost)),
                       Frac(managementCost)))

\* what the loop body computes for one unit that has a current reading
UnitShare(unit, cur, mr, year, month, tE, tW, tM, totalArea, totalElectricityUsage, totalWaterUsage) ==
    LET prev == getPreviousMonthReading(mr, unit.id, year, month)
        eu   == calculateElectricityUsage(cur, prev)
        wu   == calculateWaterUsage(cur, prev)
    IN  [unit_id |-> unit.id, area |-> unit.area, current |-> cur,
         previous |-> prev,
         electricityUsage |-> eu, waterUsage |-> wu,
         electricityCost |-> ElectricityCost(eu, totalElectricityUsage, tE),
         waterCost |-> WaterCost(wu, totalWaterUsage, tW),
         managementCost |-> ManagementCost(unit.area, totalArea, tM)]

\* the UnitBill built from the unrounded shares
BillOf(share, year, month) ==
    UnitBill(share.unit_id, year, month,
             Round(share.electricityCost), Round(share.waterCost),
             Round(share.managementCost),
             TotalCost(share.electricityCost, share.waterCost,
                       share.managementCost))

ShareIsFinite(share) ==
    /\ IsFinite(share.electricityCost)
    /\ IsFinite(share.waterCost)
    /\ IsFinite(share.managementCost)

RECURSIVE BillLoop(_, _, _, _, _, _, _, _, _, _, _, _)
\* for (const unit of units): acc is [unit_bills, bills, shares, threw].
\* A cost that is no finite number cannot be bound to the NOT NULL column:
\* saveUnitBill throws and the loop ends there.
BillLoop(unitSeq, i, currentReadings, mr, year, month, tE, tW, tM, totalArea, totals, acc) ==
    IF i > Len(unitSeq) \/ acc.threw THEN acc
    ELSE LET cur == FindReading(currentReadings, unitSeq[i].id)
         IN  IF cur = <<>>
             THEN BillLoop(unitSeq, i + 1, currentReadings, mr, year, month,
                           tE, tW, tM, totalArea, totals, acc)
             ELSE LET share == UnitShare(unitSeq[i], cur[1], mr, year, month,
                                         tE, tW, tM, totalArea,
                                         totals[1], totals[2])
                  IN  IF ~ShareIsFinite(share)
                      THEN [acc EXCEPT !.threw = TRUE,
                                       !.shares = Append(@, share)]
                      ELSE BillLoop(unitSeq, i + 1, currentReadings, mr,
                               year, month, tE, tW, tM, totalArea, totals,
                               [acc EXCEPT
                                  !.unit_bills =
                                      saveUnitBill(@, BillOf(share, year, month)),
                                  !.bills = Append(@, BillOf(share, year, month)),
                                  !.shares = Append(@, share)])

\* calculateAndSaveBills on the tables (us, mr, mb, ub): the tables after
\* it, the bills it returns and what it computed on the way
calculateAndSaveBills(us, mr, mb, ub, year, month, totalElectricityCost, totalWaterCost, totalManagementCost) ==
    LET unitSeq         == getUnits(us)
        currentReadings == getMeterReadings(mr, year, month)
        totalArea       == TotalArea(unitSeq)
        totalElectricityUsage ==
            calculateTotalElectricityUsage(unitSeq, currentReadings, mr,
                                           year, month)
        totalWaterUsage ==
            calculateTotalWaterUsage(unitSeq, currentReadings, mr,
                                     year, month)
        out == BillLoop(unitSeq, 1, currentReadings, mr, year, month,
                        totalElectricityCost, totalWaterCost,
                        totalManagementCost, totalArea,
                        <<totalElectricityUsage, totalWaterUsage>>,
                        [unit_bills |-> ub, bills |-> <<>>, shares |-> <<>>,
                         threw |-> FALSE])
    IN  [monthly_bills |->
             saveMonthlyBill(mb, MonthlyBill(year, month, totalElectricityCost,
                                             totalWaterCost, totalManagementCost)),
         unit_bills |-> out.unit_bills,
         bills |-> out.bills,
         shares |-> out.shares,
         threw |-> out.threw,
         totalArea |-> totalArea,
         totalElectricityUsage |-> totalElectricityUsage,
         totalWaterUsage |-> totalWaterUsage]

\* `previousReading?.field || 0`
PreviousOrZero(previousReading, field) ==
    IF previousReading = <<>> THEN 0 ELSE previousReading[1][field]

\* faulty variant: the usages are current minus `previous || 0`, as the
\* displayed previous values are
getUsageDetails_FromDisplayedPrevious(mr, unitId, year, month) ==
    LET currentReading  == FindReading(getMeterReadings(mr, year, month), unitId)
        previousReading == getPreviousMonthReading(mr, unitId, year, month)
        pe == PreviousOrZero(previousReading, "electricity_reading")
        pw == PreviousOrZero(previousReading, "water_reading")
    IN  IF currentReading = <<>> THEN <<>>
        ELSE <<[currentElectricity  |-> currentReading[1].electricity_reading,
                previousElectricity |-> pe,
                electricityUsage |->
                    Max(0, currentReading[1].electricity_reading - pe),
                currentWater  |-> currentReading[1].water_reading,
                previousWater |-> pw,
                waterUsage |-> Max(0, currentReading[1].water_reading - pw)]>>

\* getUsageDetails: <<>> is null
getUsageDetails(mr, unitId, year, month) ==
    LET currentReading  == FindReading(getMeterReadings(mr, year, month), unitId)
        previousReading == getPreviousMonthReading(mr, unitId, year, month)
    IN  IF currentReading = <<>> THEN <<>>
        ELSE <<[currentElectricity  |-> currentReading[1].electricity_reading,
                previousElectricity |->
                    PreviousOrZero(previousReading, "electricity_reading"),
                electricityUsage |->
                    calculateElectricityUsage(currentReading[1], previousReading),
                currentWater  |-> currentReading[1].water_reading,
                previousWater |->
                    PreviousOrZero(previousReading, "water_reading"),
                waterUsage |->
                    calculateWaterUsage(currentReading[1], previousReading)]>>

(***************************************************************************)
(* Operator input drawn by the actions                                     *)
(***************************************************************************)
\* the three amount fields of the billing form: total management fee,
\* electricity cost, water cost
CostForm(fee, elec, water) == [fee |-> fee, elec |-> elec, water |-> water]

CostForms ==
    { CostForm(<<"2","8","8","5","1","0">>, <<"4","7","4","4","0">>,
               <<"1","7","4","4","0">>),               \* getSampleBillData
      CostForm(<<"3">>, <<"1">>, <<"1">>),
      CostForm(<<"1">>, <<"5">>, <<"0">>),             \* fee < elec + water
      CostForm(<<>>, <<"1">>, <<"1">>),                \* empty field
      CostForm(<<"-","1">>, <<"0">>, <<"0">>) }        \* negative amount

\* one row of the reading form: electricity and water text
ReadingRow(e, w) == [electricity |-> e, water |-> w]

EmptyRow == ReadingRow(<<>>, <<>>)

ReadingRows ==
    { ReadingRow(<<"5">>, <<>>),
      ReadingRow(<<"3","1","0","0">>, <<"9","4","0","0">>),
      ReadingRow(<<"-","5">>, <<"0">>),
      ReadingRow(<<"a","b","c">>, <<"1">>) }

\* the reading form: a row typed for unit 601A only, the same row typed
\* for every unit, or a number for 601A and text that is no number for the
\* other units
ReadingForms ==
    { [id \in UnitIds |-> IF id \in S THEN r ELSE EmptyRow] :
          S \in {{"601A"}, UnitIds}, r \in ReadingRows }
      \cup { [id \in UnitIds |-> IF id = "601A" THEN ReadingRow(<<"5">>, <<>>)
                                 ELSE ReadingRow(<<"a","b","c">>, <<"1">>)] }

UnitNames == {"", "ho"}

AreaTexts == {<<"9","0">>, <<"0">>, <<>>}

Msg(type, text) == [type |-> type, text |-> text]

NoMessage == Msg("none", "")

Op(name, args) == [op |-> name, args |-> args]

NoCalc ==
    [n |-> 0, year |-> 0, month |-> 0,
     totalElectricityCost |-> 0, totalWaterCost |-> 0,
     totalManagementCost |-> 0,
     bills |-> <<>>, shares |-> <<>>, threw |-> FALSE, totalArea |-> 0,
     totalElectricityUsage |-> 0, totalWaterUsage |-> 0,
     repeat |-> FALSE]

NoRange ==
    [pc |-> "idle", startYear |-> 0, startMonth |-> 0, endYear |-> 0,
     endMonth |-> 0, currentYear |-> 0, currentMonth |-> 0,
     queried |-> <<>>, rangeBillsData |-> <<>>, rangeBills |-> <<>>,
     message |-> NoMessage]

(***************************************************************************)
(* Initial state: Database.initialize() on an empty local storage          *)
(***************************************************************************)
Init ==
    /\ units = NewDatabase.units
    /\ meter_readings = NewDatabase.meter_readings
    /\ monthly_bills = NewDatabase.monthly_bills
    /\ unit_bills = NewDatabase.unit_bills
    /\ message = NoMessage
    /\ lastOp = Op("init", <<>>)
    /\ calc = NoCalc
    /\ ops = 0
    /\ database = "open"
    /\ localStorage = <<>>
    /\ file = <<>>
    /\ pendingImport = <<>>
    /\ reloadTimer = {}
    /\ range = NoRange

(***************************************************************************)
(* UnitManagement.tsx                                                      *)
(***************************************************************************)
\* handleSaveUnit: editingUnit is <<>> (add) or <<unit>> (edit, the id
\* field is disabled and keeps the unit's id)
handleSaveUnit(editingUnit, id, name, areaText) ==
    LET area == ParseFloat(areaText)
    IN  /\ ops < MaxOps
        /\ database = "open"
        /\ ops' = ops + 1
        /\ UNCHANGED <<pendingImport, reloadTimer, range>>
        /\ lastOp' = Op("handleSaveUnit", <<id>>)
        /\ UNCHANGED <<meter_readings, monthly_bills, unit_bills, calc,
                       database, file>>
        /\ IF id = "" \/ name = "" \/ IsNaN(area) \/ area[1] <= 0
           THEN /\ message' = Msg("error", "InvalidUnit")
                /\ UNCHANGED <<units, localStorage>>
           ELSE IF editingUnit = <<>> /\ \E u \in units : u.id = id
           THEN /\ message' = Msg("error", "DuplicateUnit")
                /\ UNCHANGED <<units, localStorage>>
           ELSE /\ units' = saveUnit(units, Unit(id, name, area[1]))
                /\ localStorage' = autoSave(units', meter_readings,
                                            monthly_bills, unit_bills)
                /\ message' = Msg("success",
                                  IF editingUnit = <<>> THEN "UnitAdded"
                                  ELSE "UnitEdited")

\* the characters of a unit id
Chars(id) ==
    CASE id = "601A" -> <<"6", "0", "1", "A">>
      [] id = "601B" -> <<"6", "0", "1", "B">>
      [] id = "701"  -> <<"7", "0", "1">>
      [] id = "1' OR '1" -> <<"1", "'", " ", "O", "R", " ", "'", "1">>

RECURSIVE SqlStringEnd(_, _)
\* the position of the quote that closes the SQL string literal whose
\* content starts at t[i], 0 when the literal is not closed; two quotes in
\* a row are one quote of the content
SqlStringEnd(t, i) ==
    IF i > Len(t) THEN 0
    ELSE IF t[i] # "'" THEN SqlStringEnd(t, i + 1)
    ELSE IF i < Len(t) /\ t[i + 1] = "'" THEN SqlStringEnd(t, i + 2)
    ELSE i

RECURSIVE SqlUnescape(_, _)
\* the content t[i..Len(t)] of a literal with '' read as '
SqlUnescape(t, i) ==
    IF i > Len(t) THEN <<>>
    ELSE IF t[i] = "'" THEN <<"'">> \o SqlUnescape(t, i + 2)
    ELSE <<t[i]>> \o SqlUnescape(t, i + 1)

\* the condition `col = '${unitId}'` as SQLite reads it.  The text is
\* either `col = 'a'` (a row matches when col is a), or
\* `col = 'a' OR 'b'` (a row matches when col is a or the text b is a
\* non-zero number), or not a condition (error).
WhereUnitId(unitId) ==
    LET t    == <<"'">> \o Chars(unitId) \o <<"'">>
        e1   == SqlStringEnd(t, 2)
        rest == IF e1 = 0 THEN <<>> ELSE SubSeq(t, e1 + 1, Len(t))
        or   == <<" ", "O", "R", " ", "'">>
        e2   == IF Len(rest) > 5 /\ SubSeq(rest, 1, 5) = or
                THEN SqlStringEnd(rest, 6) ELSE 0
    IN  IF e1 = 0 THEN [error |-> TRUE, literal |-> <<>>, always |-> FALSE]
        ELSE IF rest = <<>>
        THEN [error |-> FALSE,
              literal |-> SqlUnescape(SubSeq(t, 2, e1 - 1), 1),
              always |-> FALSE]
        ELSE IF e2 # 0 /\ e2 = Len(rest)
        THEN [error |-> FALSE,
              literal |-> SqlUnescape(SubSeq(t, 2, e1 - 1), 1),
              always |-> OrZero(ParseFloat(
                            SqlUnescape(SubSeq(rest, 6, e2 - 1), 1))) # 0]
        ELSE [error |-> TRUE, literal |-> <<>>, always |-> FALSE]

\* DELETE FROM table WHERE field = '${unitId}'
deleteUnitRows(rows, field, where) ==
    {r \in rows : ~(where.always \/ Chars(r[field]) = where.literal)}

\* handleDeleteUnit: db.exec of the three DELETE statements built by
\* string interpolation; a text that is no SQL makes exec throw before
\* any row is deleted
handleDeleteUnit(unitId, confirmed) ==
    LET where == WhereUnitId(unitId)
    IN  /\ ops < MaxOps
        /\ database = "open"
        /\ ops' = ops + 1
        /\ UNCHANGED <<pendingImport, reloadTimer, range>>
        /\ lastOp' = Op("handleDeleteUnit", <<unitId, confirmed>>)
        /\ UNCHANGED <<monthly_bills, calc, database, file>>
        /\ IF ~confirmed
           THEN UNCHANGED <<units, meter_readings, unit_bills, message,
                           localStorage>>
           ELSE IF where.error
           THEN /\ message' = Msg("error", "DeleteError")
                /\ UNCHANGED <<units, meter_readings, unit_bills,
                               localStorage>>
           ELSE /\ meter_readings' =
                       deleteUnitRows(meter_readings, "unit_id", where)
                /\ unit_bills' = deleteUnitRows(unit_bills, "unit_id", where)
                /\ units' = deleteUnitRows(units, "id", where)
                /\ localStorage' = autoSave(units', meter_readings',
                                            monthly_bills, unit_bills')
                /\ message' = Msg("success", "UnitDeleted")

(***************************************************************************)
(* BillManagement (BillCalculationForm.tsx, second component)              *)
(***************************************************************************)
RECURSIVE SaveReadingsLoop(_, _, _, _, _, _)
\* units.forEach of handleSaveReadings: acc is [mr, hasError, savedCount]
SaveReadingsLoop(unitSeq, i, form, year, month, acc) ==
    IF i > Len(unitSeq) THEN acc
    ELSE LET row         == form[unitSeq[i].id]
             electricity == ParseFloat(OrZeroText(row.electricity))
             water       == ParseFloat(OrZeroText(row.water))
             next ==
                 IF IsNaN(electricity) \/ IsNaN(water)
                 THEN [acc EXCEPT !.hasError = TRUE]
                 ELSE IF row.electricity # <<>> \/ row.water # <<>>
                 THEN [acc EXCEPT
                         !.mr = saveMeterReading(@,
                                    MeterReading(unitSeq[i].id, year, month,
                                                 electricity[1], water[1])),
                         !.savedCount = @ + 1]
                 ELSE acc
         IN  SaveReadingsLoop(unitSeq, i + 1, form, year, month, next)

\* handleSaveReadings
handleSaveReadings(year, month, form) ==
    LET out == SaveReadingsLoop(getUnits(units), 1, form, year, month,
                   [mr |-> meter_readings, hasError |-> FALSE,
                    savedCount |-> 0])
    IN  /\ ops < MaxOps
        /\ database = "open"
        /\ ops' = ops + 1
        /\ UNCHANGED <<pendingImport, reloadTimer, range>>
        /\ lastOp' = Op("handleSaveReadings", <<year, month>>)
        /\ meter_readings' = out.mr
        /\ localStorage' = IF out.savedCount = 0 THEN localStorage
                           ELSE autoSave(units, out.mr, monthly_bills,
                                         unit_bills)
        /\ message' = IF out.hasError THEN Msg("error", "InvalidReading")
                      ELSE IF out.savedCount = 0
                      THEN Msg("info", "NothingToSave")
                      ELSE Msg("success", "ReadingsSaved")
        /\ UNCHANGED <<units, monthly_bills, unit_bills, calc, database, file>>

\* loadPreviousReadings: the previous-month reading of every unit shown
loadPreviousReadings(mr, unitSeq, year, month) ==
    [i \in 1..Len(unitSeq) |->
        getPreviousMonthReading(mr, unitSeq[i].id, year, month)]

\* getUsageAmount for one field of a form row (text) against the
\* previous reading shown for the unit: Math.max(0, current - previous)
\* with previous read as `previousReading?.field || 0`; <<>> is NaN
getUsageAmount(text, previousReading, field) ==
    LET current  == ParseFloat(OrZeroText(text))
        previous == PreviousOrZero(previousReading, field)
    IN  IF IsNaN(current) THEN NaN ELSE <<Max(0, current[1] - previous)>>

\* the shared-cost effect: Math.max(0, fee - elec - water), every field
\* read as `parseFloat(text) || 0`
calculatedSharedCost(form) ==
    Max(0, OrZero(ParseFloat(form.fee)) - OrZero(ParseFloat(form.elec))
             - OrZero(ParseFloat(form.water)))

\* faulty variant: only the electricity and water amounts are tested
AnyNegative_CostsOnly(totalMgmt, totalElec, totalWater) ==
    totalElec < 0 \/ totalWater < 0

\* totalMgmt < 0 || totalElec < 0 || totalWater < 0
AnyNegative(totalMgmt, totalElec, totalWater) ==
    totalMgmt < 0 \/ totalElec < 0 \/ totalWater < 0

\* the operation before this one was a calculation that succeeded, for the
\* same period and the same three totals
SameAsLastCalculation(year, month, tE, tW, tM) ==
    /\ lastOp.op = "handleCalculateBills"
    /\ message = Msg("success", "Calculated")
    /\ calc.year = year /\ calc.month = month
    /\ calc.totalElectricityCost = tE
    /\ calc.totalWaterCost = tW
    /\ calc.totalManagementCost = tM

\* handleCalculateBills
handleCalculateBills(year, month, form) ==
    LET totalMgmt  == ParseFloat(form.fee)
        totalElec  == ParseFloat(form.elec)
        totalWater == ParseFloat(form.water)
        shared     == calculatedSharedCost(form)
        out == calculateAndSaveBills(units, meter_readings, monthly_bills,
                   unit_bills, year, month, totalElec[1], totalWater[1],
                   shared)
    IN  /\ ops < MaxOps
        /\ database = "open"
        /\ ops' = ops + 1
        /\ UNCHANGED <<pendingImport, reloadTimer, range>>
        /\ lastOp' = Op("handleCalculateBills", <<year, month, form>>)
        /\ UNCHANGED <<units, meter_readings, database, file>>
        /\ IF IsNaN(totalMgmt) \/ IsNaN(totalElec) \/ IsNaN(totalWater)
           THEN /\ message' = Msg("error", "InvalidAmount")
                /\ UNCHANGED <<monthly_bills, unit_bills, calc, localStorage>>
           ELSE IF AnyNegative(totalMgmt[1], totalElec[1], totalWater[1])
           THEN /\ message' = Msg("error", "NegativeAmount")
                /\ UNCHANGED <<monthly_bills, unit_bills, calc, localStorage>>
           ELSE IF shared < 0
           THEN /\ message' = Msg("error", "FeeLessThanCosts")
                /\ UNCHANGED <<monthly_bills, unit_bills, calc, localStorage>>
           ELSE IF getMeterReadings(meter_readings, year, month) = {}
           THEN /\ message' = Msg("error", "NoReadings")
                /\ UNCHANGED <<monthly_bills, unit_bills, calc, localStorage>>
           ELSE /\ monthly_bills' = out.monthly_bills
                /\ unit_bills' = out.unit_bills
                /\ localStorage' = autoSave(units, meter_readings,
                                            out.monthly_bills, out.unit_bills)
                /\ calc' = [n |-> calc.n + 1, year |-> year, month |-> month,
                            totalElectricityCost |-> totalElec[1],
                            totalWaterCost |-> totalWater[1],
                            totalManagementCost |-> shared,
                            bills |-> out.bills, shares |-> out.shares,
                            threw |-> out.threw, totalArea |-> out.totalArea,
                            totalElectricityUsage |-> out.totalElectricityUsage,
                            totalWaterUsage |-> out.totalWaterUsage,
                            repeat |-> SameAsLastCalculation(year, month,
                                           totalElec[1], totalWater[1], shared)]
                /\ message' = IF out.threw THEN Msg("error", "CalculationError")
                              ELSE Msg("success", "Calculated")

(***************************************************************************)
(* sampleData.ts and App.handleLoadSampleData                              *)
(***************************************************************************)
januaryReadings ==
    << MeterReading("601A", 2024, 1, 1923, 8970),
       MeterReading("601B", 2024, 1, 30635, 8970) >>

februaryReadings ==
    << MeterReading("601A", 2024, 2, 2123, 9336),
       MeterReading("601B", 2024, 2, 30734, 9336) >>

RECURSIVE SaveAll(_, _, _)
\* readings.forEach(reading => database.saveMeterReading(reading))
SaveAll(mr, readings, i) ==
    IF i > Len(readings) THEN mr
    ELSE SaveAll(saveMeterReading(mr, readings[i]), readings, i + 1)

insertSampleData(mr) ==
    SaveAll(SaveAll(mr, januaryReadings, 1), februaryReadings, 1)

handleLoadSampleData ==
    /\ ops < MaxOps
    /\ database = "open"
    /\ ops' = ops + 1
    /\ UNCHANGED <<pendingImport, reloadTimer, range>>
    /\ lastOp' = Op("handleLoadSampleData", <<>>)
    /\ meter_readings' = insertSampleData(meter_readings)
    /\ localStorage' = autoSave(units, meter_readings', monthly_bills,
                                unit_bills)
    /\ message' = Msg("success", "SampleLoaded")
    /\ UNCHANGED <<units, monthly_bills, unit_bills, calc, database, file>>

\* handleExportDatabase: exportToFile downloads the bytes of db.export()
handleExportDatabase ==
    /\ ops < MaxOps
    /\ database = "open"
    /\ ops' = ops + 1
    /\ UNCHANGED <<pendingImport, reloadTimer, range>>
    /\ lastOp' = Op("handleExportDatabase", <<>>)
    /\ file' = <<export(units, meter_readings, monthly_bills, unit_bills)>>
    /\ message' = Msg("success", "BackupDownloaded")
    /\ UNCHANGED <<units, meter_readings, monthly_bills, unit_bills, calc,
                   database, localStorage>>

\* handleImportDatabase on the chosen file, up to the first await of
\* importFromFile: the file is being read and the engine loaded, the
\* handler is suspended and other handlers run
handleImportDatabase(data) ==
    /\ ops < MaxOps
    /\ database = "open"
    /\ pendingImport = <<>>
    /\ ops' = ops + 1
    /\ lastOp' = Op("handleImportDatabase", <<>>)
    /\ pendingImport' = <<[data |-> data, started |-> Tables]>>
    /\ UNCHANGED <<units, meter_readings, monthly_bills, unit_bills, message,
                   calc, database, localStorage, file, reloadTimer, range>>

\* importFromFile resumes after its awaits.  When initSqlJs resolved it
\* replaces the database by the file, saves it to local storage and
\* returns true; the handler shows the message and sets the reload timer.
\* When initSqlJs rejected it returns false and nothing is replaced.
\* lastOp records whether the tables changed while it was suspended.
importFromFileResumes(engineLoads) ==
    /\ pendingImport # <<>>
    /\ database = "open"
    /\ LET db == importFromFile(pendingImport[1].data, Tables)
       IN  /\ lastOp' = Op("importFromFile",
                           <<engineLoads, Tables # pendingImport[1].started>>)
           /\ pendingImport' = <<>>
           /\ UNCHANGED <<ops, calc, database, file, range>>
           /\ IF engineLoads
              THEN /\ units' = db.units
                   /\ meter_readings' = db.meter_readings
                   /\ monthly_bills' = db.monthly_bills
                   /\ unit_bills' = db.unit_bills
                   /\ localStorage' = saveToLocalStorage(db.units,
                                          db.meter_readings, db.monthly_bills,
                                          db.unit_bills)
                   /\ message' = Msg("success", "Restored")
                   /\ reloadTimer' = reloadTimer \cup {"import"}
              ELSE /\ message' = Msg("error", "RestoreFailed")
                   /\ UNCHANGED <<units, meter_readings, monthly_bills,
                                  unit_bills, localStorage, reloadTimer>>

\* handleClearData: clearLocalStorage removes the item and the reload
\* timer is set; the tables in memory stay until the page is loaded again
handleClearData(confirmed) ==
    /\ ops < MaxOps
    /\ database = "open"
    /\ ops' = ops + 1
    /\ lastOp' = Op("handleClearData", <<confirmed>>)
    /\ UNCHANGED <<units, meter_readings, monthly_bills, unit_bills, calc,
                   database, file, pendingImport, range>>
    /\ IF confirmed
       THEN /\ localStorage' = <<>>
            /\ message' = Msg("success", "Cleared")
            /\ reloadTimer' = reloadTimer \cup {"clear"}
       ELSE UNCHANGED <<localStorage, message, reloadTimer>>

\* initializeDatabase, run when the page is loaded: loadFromLocalStorage,
\* then initialize() when that returned false.  Both load the engine with
\* initSqlJs from the same address; engineLoads says whether it can be
\* loaded during this page load.  When initialize() throws, database stays
\* null and the failure screen is rendered.  Loading the page drops the
\* timers and the suspended import of the page before.
initializeDatabase(engineLoads) ==
    LET loaded == loadFromLocalStorage(localStorage, engineLoads)
        db     == IF loaded # <<>> THEN loaded[1] ELSE NewDatabase
        failed == ~engineLoads
    IN  /\ ops < MaxOps
        /\ ops' = ops + 1
        /\ lastOp' = Op("initializeDatabase",
                        <<IF failed THEN "failed"
                          ELSE IF loaded # <<>> THEN "loaded" ELSE "new">>)
        /\ pendingImport' = <<>>
        /\ reloadTimer' = {}
        /\ UNCHANGED <<calc, localStorage, file, range>>
        /\ IF failed
           THEN /\ database' = "null"
                /\ units' = {} /\ meter_readings' = {}
                /\ monthly_bills' = {} /\ unit_bills' = {}
                /\ message' = Msg("error", "InitFailed")
           ELSE /\ database' = "open"
                /\ units' = db.units
                /\ meter_readings' = db.meter_readings
                /\ monthly_bills' = db.monthly_bills
                /\ unit_bills' = db.unit_bills
                /\ message' = NoMessage

(***************************************************************************)
(* Specification                                                           *)
(***************************************************************************)
SaveUnit ==
    \E editingUnit \in {<<>>} \cup {<<u>> : u \in units},
       id \in UnitIds \cup {""}, name \in UnitNames, areaText \in AreaTexts :
        /\ editingUnit # <<>> => id = editingUnit[1].id
        /\ handleSaveUnit(editingUnit, id, name, areaText)

DeleteUnit ==
    \E u \in units, confirmed \in BOOLEAN : handleDeleteUnit(u.id, confirmed)

SaveReadings ==
    \E p \in Periods, form \in ReadingForms :
        handleSaveReadings(p[1], p[2], form)

CalculateBills ==
    \E p \in Periods, form \in CostForms :
        handleCalculateBills(p[1], p[2], form)

LoadSampleData == handleLoadSampleData

ExportDatabase == handleExportDatabase

\* the operator chooses the backup file downloaded before
ImportDatabase == file # <<>> /\ handleImportDatabase(file[1])

ImportResumes == \E engineLoads \in BOOLEAN : importFromFileResumes(engineLoads)

ClearData == \E confirmed \in BOOLEAN : handleClearData(confirmed)

\* the page is loaded again (window.location.reload, or by the operator)
LoadPage == \E engineLoads \in BOOLEAN : initializeDatabase(engineLoads)

Next ==
    \/ SaveUnit
    \/ DeleteUnit
    \/ SaveReadings
    \/ CalculateBills
    \/ LoadSampleData
    \/ ExportDatabase
    \/ ImportDatabase
    \/ ImportResumes
    \/ ClearData
    \/ LoadPage

Spec == Init /\ [][Next]_vars

(***************************************************************************)
(* Properties of the allocation                                            *)
(***************************************************************************)
\* the state is the one a successful calculation has just produced
JustCalculated ==
    /\ lastOp.op = "handleCalculateBills"
    /\ message = Msg("success", "Calculated")

Billed == 1..Len(calc.bills)

RECURSIVE RatSum(_, _)
\* the sum of the rationals qs[i..Len(qs)]
RatSum(qs, i) ==
    IF i > Len(qs) THEN Zero ELSE RatAdd(qs[i], RatSum(qs, i + 1))

\* the unrounded shares of the last calculation, in billing order
ElectricityShares ==
    [i \in 1..Len(calc.shares) |-> calc.shares[i].electricityCost]

WaterShares == [i \in 1..Len(calc.shares) |-> calc.shares[i].waterCost]

RECURSIVE SumField(_, _)
\* the sum of row[field] over a set of rows
SumField(rows, field) ==
    IF rows = {} THEN 0
    ELSE LET r == CHOOSE x \in rows : TRUE
         IN  r[field] + SumField(rows \ {r}, field)

\* C1: every UnitBill the calculation produces has total_cost equal to the
\* sum of its three stored, independently rounded component costs.
C1_TotalIsSumOfRoundedComponents ==
    \A i \in Billed :
        calc.bills[i].total_cost =
            calc.bills[i].electricity_cost + calc.bills[i].water_cost
                + calc.bills[i].management_cost

\* C2 as stated: for every calculation the unrounded electricity shares of
\* the billed units add up to total_electricity_cost and the unrounded
\* water shares to total_water_cost.
C2_SharesAlwaysSumToTotals ==
    calc.n > 0 =>
        /\ RatSum(ElectricityShares, 1)
               = Rat(calc.totalElectricityCost, 1)
        /\ RatSum(WaterShares, 1) = Rat(calc.totalWaterCost, 1)

\* C2 amended: the unrounded electricity shares add up to
\* total_electricity_cost when the total electricity usage of the billed
\* units is positive, and every share is 0 when that usage is 0; the same
\* for water.
C2_SharesSumToTotalsWhenUsed ==
    calc.n > 0 =>
        /\ calc.totalElectricityUsage > 0 =>
               RatSum(ElectricityShares, 1)
                   = Rat(calc.totalElectricityCost, 1)
        /\ calc.totalElectricityUsage = 0 =>
               \A i \in 1..Len(calc.shares) :
                   calc.shares[i].electricityCost = Zero
        /\ calc.totalWaterUsage > 0 =>
               RatSum(WaterShares, 1)
                   = Rat(calc.totalWaterCost, 1)
        /\ calc.totalWaterUsage = 0 =>
               \A i \in 1..Len(calc.shares) : calc.shares[i].waterCost = Zero

\* two units with positive electricity and water usage share positive totals
C2_Witness ==
    /\ JustCalculated
    /\ calc.totalElectricityCost > 0 /\ calc.totalWaterCost > 0
    /\ \E i, j \in 1..Len(calc.shares) :
           /\ i # j
           /\ calc.shares[i].electricityUsage > 0
           /\ calc.shares[j].electricityUsage > 0
           /\ calc.shares[i].waterUsage > 0
           /\ calc.shares[j].waterUsage > 0

\* C3 as stated: in every reachable state, for every period with a
\* MonthlyBill and UnitBill rows, the stored electricity, water and
\* management costs of the period's rows each add up to the MonthlyBill
\* total to within 0.5 per row.
C3_StoredSumsMatchTotals ==
    \A mb \in monthly_bills :
        LET rows == getUnitBills(unit_bills, mb.year, mb.month)
            n    == Cardinality(rows)
        IN  rows # {} =>
                /\ 2 * Abs(SumField(rows, "electricity_cost")
                               - mb.total_electricity_cost) <= n
                /\ 2 * Abs(SumField(rows, "water_cost")
                               - mb.total_water_cost) <= n
                /\ 2 * Abs(SumField(rows, "management_cost")
                               - mb.total_management_cost) <= n

\* C3 amended: right after a calculation of a period in which the registry
\* is not empty and every registry unit has a reading, the stored management costs of the period's
\* rows add up to total_management_cost to within 0.5 per row, and the
\* stored electricity (water) costs add up to the electricity (water) total
\* to within 0.5 per row when the total usage is positive and to 0 when it
\* is 0.
C3_SumsMatchAfterFullCalculation ==
    (/\ JustCalculated
     /\ units # {}
     /\ \A u \in units :
            \E r \in meter_readings :
                r.unit_id = u.id /\ r.year = calc.year /\ r.month = calc.month)
      => LET rows == getUnitBills(unit_bills, calc.year, calc.month)
             n    == Cardinality(rows)
             mb   == CHOOSE b \in monthly_bills :
                         b.year = calc.year /\ b.month = calc.month
         IN  /\ 2 * Abs(SumField(rows, "management_cost")
                            - mb.total_management_cost) <= n
             /\ 2 * Abs(SumField(rows, "electricity_cost")
                            - (IF calc.totalElectricityUsage > 0
                               THEN mb.total_electricity_cost ELSE 0)) <= n
             /\ calc.totalElectricityUsage = 0
                    => SumField(rows, "electricity_cost") = 0
             /\ 2 * Abs(SumField(rows, "water_cost")
                            - (IF calc.totalWaterUsage > 0
                               THEN mb.total_water_cost ELSE 0)) <= n
             /\ calc.totalWaterUsage = 0 => SumField(rows, "water_cost") = 0

\* every registry unit is billed, usage is positive, and rounding makes
\* the stored water costs differ from the water total
C3_Witness ==
    /\ JustCalculated
    /\ Cardinality(units) >= 2
    /\ Len(calc.bills) = Cardinality(units)
    /\ calc.totalElectricityUsage > 0 /\ calc.totalWaterUsage > 0
    /\ calc.totalManagementCost > 0
    /\ SumField(getUnitBills(unit_bills, calc.year, calc.month), "water_cost")
           # calc.totalWaterCost

\* the calendar month before (year, month)
PrecedingPeriod(year, month) ==
    IF month = 1 THEN <<year - 1, 12>> ELSE <<year, month - 1>>

\* the stored readings of unit id for period p
ReadingsOf(id, p) ==
    {r \in meter_readings : r.unit_id = id /\ r.year = p[1] /\ r.month = p[2]}

\* C4: for a unit with a current and a previous reading the engine's
\* electricity and water usage is max(0, current - previous), and is never
\* negative, also when the current reading is below the previous one.
C4_UsageIsClampedDifference ==
    \A i \in 1..Len(calc.shares) :
        LET share == calc.shares[i]
            cur   == share.current
        IN  /\ share.electricityUsage >= 0
            /\ share.waterUsage >= 0
            /\ share.previous # <<>> =>
                 LET prev == share.previous[1]
                 IN  /\ cur.electricity_reading >= prev.electricity_reading
                           => share.electricityUsage =
                                  cur.electricity_reading
                                      - prev.electricity_reading
                     /\ cur.electricity_reading < prev.electricity_reading
                           => share.electricityUsage = 0
                     /\ cur.water_reading >= prev.water_reading
                           => share.waterUsage =
                                  cur.water_reading - prev.water_reading
                     /\ cur.water_reading < prev.water_reading
                           => share.waterUsage = 0

\* a billed unit whose current electricity reading is below its previous one
C4_Witness ==
    /\ JustCalculated
    /\ \E i \in 1..Len(calc.shares) :
           /\ calc.shares[i].previous # <<>>
           /\ calc.shares[i].current.electricity_reading
                  < calc.shares[i].previous[1].electricity_reading
           /\ calc.shares[i].current.water_reading
                  > calc.shares[i].previous[1].water_reading

\* C5: getPreviousMonthReading(unit, year, month) is that unit's reading for
\* the calendar month before (December of year - 1 when month = 1) and null
\* when exactly that row is absent: no older month, no other unit.
C5_PreviousMonthReadingIsExact ==
    /\ \A id \in UnitIds, p \in Periods :
           LET got  == getPreviousMonthReading(meter_readings, id, p[1], p[2])
               rows == ReadingsOf(id, PrecedingPeriod(p[1], p[2]))
           IN  IF rows = {} THEN got = <<>>
               ELSE Len(got) = 1 /\ got[1] \in rows
    /\ JustCalculated =>
           \A i \in 1..Len(calc.shares) :
               LET share == calc.shares[i]
                   rows  == ReadingsOf(share.unit_id,
                                PrecedingPeriod(calc.year, calc.month))
               IN  IF rows = {} THEN share.previous = <<>>
                   ELSE Len(share.previous) = 1 /\ share.previous[1] \in rows

\* a January calculation: one unit's previous reading is its December
\* reading of the year before, another unit has none
C5_Witness ==
    /\ JustCalculated
    /\ calc.month = 1
    /\ \E i, j \in 1..Len(calc.shares) :
           /\ calc.shares[i].previous # <<>>
           /\ calc.shares[i].previous[1].year = calc.year - 1
           /\ calc.shares[i].previous[1].month = 12
           /\ calc.shares[j].previous = <<>>

\* r = Math.round(n / d) for d > 0, stated without division
IsRounded(r, n, d) == 2 * r * d <= 2 * n + d /\ 2 * n + d < 2 * (r + 1) * d

\* C6: a billed unit with no reading in the preceding calendar month gets
\* usage 0, electricity_cost 0 and water_cost 0 and still gets
\* management_cost = round(area / totalArea * total_management_cost).
C6_NoPreviousReadingBillsOnlyManagement ==
    JustCalculated =>
        \A i \in Billed :
            LET bill  == calc.bills[i]
                share == calc.shares[i]
                unit  == CHOOSE u \in units : u.id = bill.unit_id
            IN  ReadingsOf(bill.unit_id,
                           PrecedingPeriod(calc.year, calc.month)) = {}
                  => /\ share.electricityUsage = 0
                     /\ share.waterUsage = 0
                     /\ bill.electricity_cost = 0
                     /\ bill.water_cost = 0
                     /\ IsRounded(bill.management_cost,
                                  unit.area * calc.totalManagementCost,
                                  SumField(units, "area"))
                     /\ bill \in unit_bills

\* a unit without a previous reading is billed a management cost next to a
\* unit that has usage, with a positive electricity total
C6_Witness ==
    /\ JustCalculated
    /\ calc.totalElectricityCost > 0
    /\ \E i, j \in Billed :
           /\ calc.shares[i].previous = <<>>
           /\ calc.shares[i].current.electricity_reading > 0
           /\ calc.bills[i].management_cost > 0
           /\ calc.shares[j].electricityUsage > 0

\* the registry units with a reading in the calculated month
UnitsWithReading ==
    {u.id : u \in {x \in units :
                     ReadingsOf(x.id, <<calc.year, calc.month>>) # {}}}

\* C7: the calculation returns and upserts exactly one UnitBill for each
\* registry unit with a reading in the target month, none for a unit
\* without one, and upserts exactly one MonthlyBill holding the three
\* totals it was given.
C7_OneBillPerUnitWithReading ==
    JustCalculated =>
        /\ Len(calc.bills) = Cardinality(UnitsWithReading)
        /\ {calc.bills[i].unit_id : i \in Billed} = UnitsWithReading
        /\ \A i \in Billed :
               {b \in unit_bills : /\ b.unit_id = calc.bills[i].unit_id
                                   /\ b.year = calc.year
                                   /\ b.month = calc.month}
                   = {calc.bills[i]}
        /\ \A u \in units :
               u.id \notin UnitsWithReading =>
                   ~\E b \in unit_bills : /\ b.unit_id = u.id
                                          /\ b.year = calc.year
                                          /\ b.month = calc.month
        /\ {mb \in monthly_bills : mb.year = calc.year /\ mb.month = calc.month}
               = {MonthlyBill(calc.year, calc.month, calc.totalElectricityCost,
                              calc.totalWaterCost, calc.totalManagementCost)}

\* a recalculation of a period with other totals, with one registry unit
\* billed and another without a reading in the month
C7_Witness ==
    /\ JustCalculated
    /\ calc.n >= 2
    /\ Len(calc.bills) >= 1
    /\ \E u \in units : u.id \notin UnitsWithReading

\* C8: when the total electricity usage of the billed units is 0 every
\* billed unit's electricity_cost is 0 and nothing is divided by zero; the
\* same for water; the three costs of every bill are finite numbers.
C8_NoDivisionByZero ==
    calc.n > 0 =>
        /\ ~calc.threw
        /\ Len(calc.bills) = Len(calc.shares)
        /\ \A i \in 1..Len(calc.shares) :
               /\ IsFinite(calc.shares[i].electricityCost)
               /\ IsFinite(calc.shares[i].waterCost)
               /\ IsFinite(calc.shares[i].managementCost)
               /\ calc.totalElectricityUsage = 0 =>
                      /\ calc.shares[i].electricityCost = Zero
                      /\ calc.bills[i].electricity_cost = 0
               /\ calc.totalWaterUsage = 0 =>
                      /\ calc.shares[i].waterCost = Zero
                      /\ calc.bills[i].water_cost = 0

\* a calculation with positive totals and no usage at all
C8_Witness ==
    /\ JustCalculated
    /\ Len(calc.bills) >= 2
    /\ calc.totalElectricityUsage = 0 /\ calc.totalElectricityCost > 0
    /\ calc.totalWaterUsage = 0 /\ calc.totalWaterCost > 0

\* C9: within one calculation a unit with the larger area never gets the
\* smaller stored management_cost.
C9_ManagementCostMonotonicInArea ==
    \A i, j \in Billed :
        calc.shares[i].area >= calc.shares[j].area
            => calc.bills[i].management_cost >= calc.bills[j].management_cost

\* two billed units of different area with different management costs
C9_Witness ==
    /\ JustCalculated
    /\ \E i, j \in Billed :
           /\ calc.shares[i].area > calc.shares[j].area
           /\ calc.bills[i].management_cost > calc.bills[j].management_cost
           /\ calc.bills[j].management_cost > 0

\* C10: a calculation that directly follows a successful calculation of the
\* same period with the same totals leaves the UnitBill rows as they were.
C10_RecalculationIsIdempotent ==
    [][(/\ JustCalculated
        /\ calc'.n = calc.n + 1
        /\ calc'.year = calc.year /\ calc'.month = calc.month
        /\ calc'.totalElectricityCost = calc.totalElectricityCost
        /\ calc'.totalWaterCost = calc.totalWaterCost
        /\ calc'.totalManagementCost = calc.totalManagementCost)
          => unit_bills' = unit_bills]_vars

\* the second of two identical calculations in a row, with bills of
\* non-zero cost
C10_Witness ==
    /\ JustCalculated
    /\ calc.repeat
    /\ \E i, j \in Billed :
           /\ i # j
           /\ calc.bills[i].electricity_cost > 0
           /\ calc.bills[j].management_cost > 0

(***************************************************************************)
(* The sample data                                                         *)
(***************************************************************************)
\* the second sample month has just been calculated with an electricity
\* total of 47440 on the sample readings of 601A and 601B, and no other
\* unit has a reading in that month
SampleFebruaryCalculated ==
    /\ JustCalculated
    /\ calc.year = 2024 /\ calc.month = 2
    /\ calc.totalElectricityCost = 47440
    /\ \A i \in 1..2 : /\ januaryReadings[i] \in meter_readings
                        /\ februaryReadings[i] \in meter_readings
    /\ getMeterReadings(meter_readings, 2024, 2)
           = {februaryReadings[1], februaryReadings[2]}
    /\ {"601A", "601B"} \subseteq {u.id : u \in units}

\* the electricity_cost stored for unit id in the sample month, as a set
StoredElectricityCost(id) ==
    {b.electricity_cost : b \in {x \in getUnitBills(unit_bills, 2024, 2) :
                                    x.unit_id = id}}

\* C11 as stated: on the sample data the second month stores
\* electricity_cost 31727 for 601A and 15713 for 601B.
C11_SampleElectricityAsStated ==
    SampleFebruaryCalculated
        => /\ StoredElectricityCost("601A") = {31727}
           /\ StoredElectricityCost("601B") = {15713}

\* C11 amended: on the sample data (usage 200 and 99 of a total of 299,
\* electricity total 47440) the second month stores electricity_cost
\* 31732 = round(200/299*47440) for 601A and 15708 = round(99/299*47440)
\* for 601B.
C11_SampleElectricityAsComputed ==
    SampleFebruaryCalculated
        => /\ StoredElectricityCost("601A") = {31732}
           /\ StoredElectricityCost("601B") = {15708}
           /\ calc.totalElectricityUsage = 299

C11_Witness ==
    /\ SampleFebruaryCalculated
    /\ lastOp.args[3] = CostForm(<<"2","8","8","5","1","0">>,
                                 <<"4","7","4","4","0">>,
                                 <<"1","7","4","4","0">>)
    /\ Cardinality(getUnitBills(unit_bills, 2024, 2)) = 2

(***************************************************************************)
(* Displayed usage                                                         *)
(***************************************************************************)
\* C13: right after a calculation, for every unit the engine billed,
\* getUsageDetails on the same tables returns the electricity and water
\* usage the engine used for it: max(0, current - previous), and 0 when the
\* unit has no reading for the preceding month.
C13_UsageDetailsMatchEngine ==
    JustCalculated =>
        \A i \in 1..Len(calc.shares) :
            LET sh == calc.shares[i]
                d  == getUsageDetails(meter_readings, sh.unit_id,
                                      calc.year, calc.month)
            IN  /\ d # <<>>
                /\ d[1].electricityUsage = sh.electricityUsage
                /\ d[1].waterUsage = sh.waterUsage
                /\ sh.previous = <<>>
                       => d[1].electricityUsage = 0 /\ d[1].waterUsage = 0
                /\ sh.previous # <<>>
                       => /\ d[1].electricityUsage =
                                Max(0, d[1].currentElectricity
                                           - d[1].previousElectricity)
                          /\ d[1].waterUsage =
                                Max(0, d[1].currentWater - d[1].previousWater)

\* a billed unit without a previous reading and with a positive current
\* reading: its displayed usage is 0, not the reading
C13_Witness ==
    /\ JustCalculated
    /\ \E i \in 1..Len(calc.shares) :
           /\ calc.shares[i].previous = <<>>
           /\ calc.shares[i].current.electricity_reading > 0
           /\ getUsageDetails(meter_readings, calc.shares[i].unit_id,
                              calc.year, calc.month)[1].electricityUsage = 0

(***************************************************************************)
(* Validation in BillManagement                                            *)
(***************************************************************************)
\* the step is a run of handleCalculateBills
CalculateStep == lastOp'.op = "handleCalculateBills" /\ ops' # ops

\* C14: a calculate request for a period without any MeterReading row
\* shows an error message and writes or changes no MonthlyBill row and no
\* UnitBill row.
C14_NoReadingsNoWrite ==
    [][ (/\ CalculateStep
         /\ {r \in meter_readings : r.year = lastOp'.args[1]
                                      /\ r.month = lastOp'.args[2]} = {})
          => /\ message'.type = "error"
             /\ monthly_bills' = monthly_bills
             /\ unit_bills' = unit_bills ]_vars

\* valid amounts, readings exist for another period only, and the request
\* was refused for the missing readings
C14_Witness ==
    /\ lastOp.op = "handleCalculateBills"
    /\ message = Msg("error", "NoReadings")
    /\ meter_readings # {}
    /\ monthly_bills = {} /\ unit_bills = {}

\* an amount field that is not a number, or is negative
InvalidAmounts(form) ==
    \E t \in {form.fee, form.elec, form.water} :
        IsNaN(ParseFloat(t)) \/ ParseFloat(t)[1] < 0

\* C15: the engine is called only with three totals that are numbers >= 0;
\* when an entered amount is not a number or is negative, an error message
\* is shown, the engine is not called and the tables are unchanged.
C15_EngineCalledWithValidTotalsOnly ==
    [][ CalculateStep
          => /\ calc'.n # calc.n
                   => /\ calc'.totalElectricityCost >= 0
                      /\ calc'.totalWaterCost >= 0
                      /\ calc'.totalManagementCost >= 0
                      /\ ~InvalidAmounts(lastOp'.args[3])
             /\ InvalidAmounts(lastOp'.args[3])
                   => /\ message'.type = "error"
                      /\ calc' = calc
                      /\ monthly_bills' = monthly_bills
                      /\ unit_bills' = unit_bills
                      /\ meter_readings' = meter_readings
                      /\ units' = units ]_vars

\* a negative amount was refused although the period has readings
C15_Witness ==
    /\ lastOp.op = "handleCalculateBills"
    /\ message = Msg("error", "NegativeAmount")
    /\ \E r \in meter_readings :
           r.year = lastOp.args[1] /\ r.month = lastOp.args[2]

\* C16: no stored MeterReading has a negative electricity_reading or
\* water_reading.
C16_NoNegativeReadingStored ==
    \A r \in meter_readings :
        r.electricity_reading >= 0 /\ r.water_reading >= 0

\* C17: at most one MeterReading per (unit_id, year, month), one
\* MonthlyBill per (year, month) and one UnitBill per (unit_id, year,
\* month); after a calculation the MonthlyBill of the period carries the
\* totals of that calculation.
C17_KeysAreUnique ==
    /\ \A a, b \in meter_readings :
           (a.unit_id = b.unit_id /\ a.year = b.year /\ a.month = b.month)
               => a = b
    /\ \A a, b \in monthly_bills :
           (a.year = b.year /\ a.month = b.month) => a = b
    /\ \A a, b \in unit_bills :
           (a.unit_id = b.unit_id /\ a.year = b.year /\ a.month = b.month)
               => a = b
    /\ \A a, b \in units : a.id = b.id => a = b
    /\ lastOp.op = "handleCalculateBills" /\ message.type # "error"
           => MonthlyBill(calc.year, calc.month, calc.totalElectricityCost,
                          calc.totalWaterCost, calc.totalManagementCost)
                  \in monthly_bills

\* the same period was calculated twice with different totals: one
\* MonthlyBill, with the totals of the second calculation
C17_Witness ==
    /\ JustCalculated
    /\ calc.n = 2 /\ ~calc.repeat
    /\ Cardinality(monthly_bills) = 1
    /\ unit_bills # {}

(***************************************************************************)
(* Unit deletion                                                           *)
(***************************************************************************)
\* C12: a confirmed deletion of a unit removes that unit and every
\* MeterReading and UnitBill row with its unit_id, and leaves the rows of
\* every other unit unchanged.
C12_DeleteRemovesExactlyTheUnit ==
    [][ (/\ lastOp'.op = "handleDeleteUnit" /\ ops' # ops
         /\ lastOp'.args[2])
          => /\ units' = {u \in units : u.id # lastOp'.args[1]}
             /\ meter_readings' =
                    {r \in meter_readings : r.unit_id # lastOp'.args[1]}
             /\ unit_bills' =
                    {b \in unit_bills : b.unit_id # lastOp'.args[1]} ]_vars

(***************************************************************************)
(* Persistence                                                             *)
(***************************************************************************)


\* the step is a run of a handler that wrote to a table: a unit add, edit
\* or delete or a saveMeterReading that changed a row, the sample load, or
\* a call of the engine (saveMonthlyBill, saveUnitBill)
WriteStep ==
    /\ ops' # ops
    /\ \/ /\ lastOp'.op \in {"handleSaveUnit", "handleDeleteUnit",
                               "handleSaveReadings"}
          /\ Tables' # Tables
       \/ lastOp'.op = "handleLoadSampleData"
       \/ lastOp'.op = "handleCalculateBills" /\ calc'.n # calc.n

\* C18: after every write operation the local-storage item is one blob
\* that decodes to the whole store in memory, whatever the item held
\* before.
C18_BlobIsWholeStoreAfterWrite ==
    [][ WriteStep
          => /\ localStorage' # <<>>
             /\ OpenDatabase(atob(localStorage'[1])) = Tables' ]_vars

\* bills were calculated and then a unit was deleted: the blob holds the
\* store after the deletion, with the remaining readings and bills
C18_Witness ==
    /\ lastOp.op = "handleDeleteUnit"
    /\ message = Msg("success", "UnitDeleted")
    /\ unit_bills # {} /\ meter_readings # {} /\ monthly_bills # {}
    /\ localStorage = <<btoa(export(units, meter_readings, monthly_bills,
                                     unit_bills))>>

LastOperationFailed ==
    \/ message.type = "error"
    \/ lastOp.op = "initializeDatabase" /\ lastOp.args = <<"failed">>
    \/ lastOp.op = "importFromFile" /\ ~lastOp.args[1]

\* C20: after a failure an explanatory message is shown and the operator
\* actions of the UI are available (database is set, so the tabs are
\* rendered).
C20_FailureKeepsUIAvailable ==
    LastOperationFailed => message.type = "error" /\ database = "open"

(***************************************************************************)
(* Import, startup and clear                                               *)
(***************************************************************************)
\* the step is the return of a suspended importFromFile
ImportReturns ==
    /\ pendingImport # <<>> /\ pendingImport' = <<>>
    /\ lastOp'.op = "importFromFile"

\* C21: when a suspended importFromFile returns true, the tables in memory
\* and the local-storage blob both hold exactly the content of the
\* imported file, whatever was written while it was suspended.
C21_ImportWins ==
    [][ (ImportReturns /\ lastOp'.args[1])
          => /\ Tables' = OpenDatabase(pendingImport[1].data)
             /\ localStorage' # <<>>
             /\ OpenDatabase(atob(localStorage'[1]))
                    = OpenDatabase(pendingImport[1].data) ]_vars

\* the import returned true after the tables had been changed while it was
\* suspended, and memory and blob hold the file
C21_Witness ==
    /\ lastOp.op = "importFromFile"
    /\ lastOp.args = <<TRUE, TRUE>>
    /\ file # <<>>
    /\ Tables = OpenDatabase(file[1])
    /\ localStorage = <<btoa(file[1])>>

\* C22: a calculate request whose total management fee is smaller than
\* the electricity cost plus the water cost is rejected with the
\* fee-less-than-costs error and writes no MonthlyBill and no UnitBill.
C22_FeeBelowCostsRejected ==
    [][ (/\ CalculateStep
         /\ ~InvalidAmounts(lastOp'.args[3])
         /\ ParseFloat(lastOp'.args[3].fee)[1]
               < ParseFloat(lastOp'.args[3].elec)[1]
                   + ParseFloat(lastOp'.args[3].water)[1])
          => /\ message' = Msg("error", "FeeLessThanCosts")
             /\ monthly_bills' = monthly_bills
             /\ unit_bills' = unit_bills ]_vars

\* C23: every unit of the registry has a distinct id, a name and an area
\* > 0; a run of the unit form that reports an error leaves the registry
\* unchanged, an add only succeeds for an id that was not in the registry,
\* and a run that changes the registry puts in one valid unit.
C23_RegistryStaysValid ==
    [][ /\ \A u \in units' : u.id # "" /\ u.name # "" /\ u.area > 0
        /\ \A u, v \in units' : u.id = v.id => u = v
        /\ (lastOp'.op = "handleSaveUnit" /\ ops' # ops)
              => /\ message'.type = "error" => units' = units
                 /\ message' = Msg("success", "UnitAdded")
                       => /\ lastOp'.args[1] \notin {u.id : u \in units}
                          /\ Cardinality(units') = Cardinality(units) + 1
                 /\ \A u \in units' \ units : u.id = lastOp'.args[1]
                 /\ \A u \in units \ units' : u.id = lastOp'.args[1] ]_vars

\* an add with the id of an existing unit was refused
C23_Witness ==
    /\ lastOp.op = "handleSaveUnit"
    /\ message = Msg("error", "DuplicateUnit")
    /\ \E u \in units : u.id = lastOp.args[1]

\* the default units of a fresh store
DefaultUnits == {Unit("601A", "601A-ho", 60), Unit("601B", "601B-ho", 120)}

\* the step is a page load that ends with the UI rendered
PageLoads ==
    lastOp'.op = "initializeDatabase" /\ ops' # ops /\ database' = "open"

\* C24: a page load with a blob in local storage restores the tables from
\* the blob and inserts no default unit; a page load without a blob
\* creates the fresh store: units 601A (60) and 601B (120), no readings
\* and no bills.
C24_StartupRestoresOrCreates ==
    [][ PageLoads
          => /\ localStorage # <<>>
                   => /\ lastOp'.args = <<"loaded">>
                      /\ Tables' = OpenDatabase(atob(localStorage[1]))
             /\ localStorage = <<>>
                   => /\ lastOp'.args = <<"new">>
                      /\ units' = DefaultUnits
                      /\ meter_readings' = {} /\ monthly_bills' = {}
                      /\ unit_bills' = {} ]_vars

\* a default unit was deleted and is still absent after the page load
C24_Witness ==
    /\ lastOp.op = "initializeDatabase" /\ lastOp.args = <<"loaded">>
    /\ \E d \in DefaultUnits : d.id \notin {u.id : u \in units}
    /\ units # {}

(***************************************************************************)
(* BillOutput: loadRangeBills, one step per loop iteration                 *)
(***************************************************************************)
\* the years and months of the range selectors
RangeYears == {2023, 2024}
RangeMonths == 1..12

\* faulty variant: the end month is left out
InRange_ExclusiveEnd(currentYear, currentMonth, endYear, endMonth) ==
    currentYear < endYear \/ (currentYear = endYear /\ currentMonth < endMonth)

\* the while condition of loadRangeBills
InRange(currentYear, currentMonth, endYear, endMonth) ==
    currentYear < endYear \/ (currentYear = endYear /\ currentMonth <= endMonth)

\* entry of loadRangeBills: currentYear = startYear, currentMonth = startMonth
loadRangeBills(startYear, startMonth, endYear, endMonth) ==
    /\ range.pc \in {"idle", "done"}
    /\ database = "open"
    /\ range' = [range EXCEPT !.pc = "loop",
                              !.startYear = startYear,
                              !.startMonth = startMonth,
                              !.endYear = endYear,
                              !.endMonth = endMonth,
                              !.currentYear = startYear,
                              !.currentMonth = startMonth,
                              !.queried = <<>>,
                              !.rangeBillsData = <<>>]
    /\ UNCHANGED <<units, meter_readings, monthly_bills, unit_bills, message,
                   lastOp, calc, ops, database, localStorage, file,
                   pendingImport, reloadTimer>>

\* one iteration of the while loop: query the month, keep a non-empty
\* result, step to the next month
loadRangeBillsIteration ==
    /\ range.pc = "loop"
    /\ InRange(range.currentYear, range.currentMonth,
               range.endYear, range.endMonth)
    /\ LET unitBills == getUnitBills(unit_bills, range.currentYear,
                                     range.currentMonth)
           rolls == range.currentMonth + 1 > 12
       IN  range' = [range EXCEPT
               !.queried = Append(@, <<range.currentYear, range.currentMonth>>),
               !.rangeBillsData =
                   IF unitBills # {}
                   THEN Append(@, [year |-> range.currentYear,
                                   month |-> range.currentMonth,
                                   bills |-> unitBills])
                   ELSE @,
               !.currentMonth = IF rolls THEN 1 ELSE @ + 1,
               !.currentYear = IF rolls THEN @ + 1 ELSE @]
    /\ UNCHANGED <<units, meter_readings, monthly_bills, unit_bills, message,
                   lastOp, calc, ops, database, localStorage, file,
                   pendingImport, reloadTimer>>

\* the loop condition is false: setRangeBills and the message
loadRangeBillsReturns ==
    /\ range.pc = "loop"
    /\ ~InRange(range.currentYear, range.currentMonth,
                range.endYear, range.endMonth)
    /\ range' = [range EXCEPT
           !.pc = "done",
           !.rangeBills = IF range.rangeBillsData = <<>> THEN <<>>
                          ELSE range.rangeBillsData,
           !.message = IF range.rangeBillsData = <<>>
                       THEN Msg("info", "NoBillsInRange") ELSE NoMessage]
    /\ UNCHANGED <<units, meter_readings, monthly_bills, unit_bills, message,
                   lastOp, calc, ops, database, localStorage, file,
                   pendingImport, reloadTimer>>

\* the store after the sample data is loaded and its months are calculated
\* with the sample amounts
SampleStore(months) ==
    LET mr  == insertSampleData({})
        jan == IF 1 \in months
               THEN calculateAndSaveBills(NewDatabase.units, mr, {}, {},
                                          2024, 1, 47440, 17440, 223630)
               ELSE [monthly_bills |-> {}, unit_bills |-> {}]
        feb == calculateAndSaveBills(NewDatabase.units, mr, jan.monthly_bills,
                                     jan.unit_bills, 2024, 2,
                                     47440, 17440, 223630)
    IN  [units |-> NewDatabase.units, meter_readings |-> mr,
         monthly_bills |-> feb.monthly_bills, unit_bills |-> feb.unit_bills]

\* the stores loadRangeBills is run on
RangeStores == {NewDatabase, SampleStore({2}), SampleStore({1, 2})}

RangeInit ==
    /\ \E db \in RangeStores :
          /\ units = db.units
          /\ meter_readings = db.meter_readings
          /\ monthly_bills = db.monthly_bills
          /\ unit_bills = db.unit_bills
    /\ message = NoMessage
    /\ lastOp = Op("init", <<>>)
    /\ calc = NoCalc
    /\ ops = 0
    /\ database = "open"
    /\ localStorage = <<>>
    /\ file = <<>>
    /\ pendingImport = <<>>
    /\ reloadTimer = {}
    /\ range = NoRange

LoadRangeBills ==
    \E startYear \in RangeYears, startMonth \in RangeMonths,
       endYear \in RangeYears, endMonth \in RangeMonths :
        loadRangeBills(startYear, startMonth, endYear, endMonth)

RangeNext ==
    \/ LoadRangeBills
    \/ loadRangeBillsIteration
    \/ loadRangeBillsReturns

\* loadRangeBills is synchronous code of one handler: once entered, its
\* next step is always taken
RangeSpec ==
    /\ RangeInit
    /\ [][RangeNext]_vars
    /\ WF_vars(loadRangeBillsIteration)
    /\ WF_vars(loadRangeBillsReturns)

\* the number of the calendar month, counted in months
MonthIndex(year, month) == year * 12 + month - 1

\* the months queried so far are the calendar months from the start on,
\* one after the other, and no month after the end; at the return they
\* are all the months from start to end
QueriedInOrder ==
    range.pc # "idle" =>
        LET first == MonthIndex(range.startYear, range.startMonth)
            last  == MonthIndex(range.endYear, range.endMonth)
            n     == Len(range.queried)
        IN  /\ \A i \in 1..n :
                   range.queried[i] = <<(first + i - 1) \div 12,
                                        ((first + i - 1) % 12) + 1>>
            /\ n <= Max(0, last - first + 1)
            /\ range.pc = "done" => n = Max(0, last - first + 1)

\* C25: loadRangeBills terminates for every start and end; it queries the
\* calendar months from start to end inclusive once each in chronological
\* order, rolling from month 12 to month 1 of the next year, and queries
\* no month when the start is after the end.
C25_RangeQueriesEachMonthOnceAndEnds ==
    /\ []QueriedInOrder
    /\ (range.pc = "loop") ~> (range.pc = "done")

\* a range over the end of a year was queried to its end and found bills
C25_Witness ==
    /\ range.pc = "done"
    /\ range.queried = <<<<2023, 11>>, <<2023, 12>>, <<2024, 1>>, <<2024, 2>>>>
    /\ <<range.endYear, range.endMonth>> = <<2024, 2>>
    /\ Len(range.rangeBills) = 2
    /\ range.message = NoMessage

\* C26: every MeterReading row and every UnitBill row has a unit_id of
\* the unit registry.
C26_RowsBelongToRegisteredUnits ==
    /\ \A r \in meter_readings : r.unit_id \in {u.id : u \in units}
    /\ \A b \in unit_bills : b.unit_id \in {u.id : u \in units}

\* C27: every UnitBill row has a MeterReading row of the same unit, year
\* and month and a MonthlyBill row of the same year and month.
C27_BillsHaveReadingAndMonthlyBill ==
    \A b \in unit_bills :
        /\ \E r \in meter_readings :
               r.unit_id = b.unit_id /\ r.year = b.year /\ r.month = b.month
        /\ \E m \in monthly_bills : m.year = b.year /\ m.month = b.month

\* a unit was deleted and the bills of the other units are still stored
C27_Witness ==
    /\ lastOp.op = "handleDeleteUnit"
    /\ message = Msg("success", "UnitDeleted")
    /\ unit_bills # {}

\* C28: the page load that follows a confirmed data clear shows the fresh
\* default store.
C28_ClearThenReloadIsFresh ==
    [][ (PageLoads /\ "clear" \in reloadTimer)
          => /\ units' = DefaultUnits
             /\ meter_readings' = {} /\ monthly_bills' = {}
             /\ unit_bills' = {} ]_vars

C30_ShownUsageIsBilledUsage ==
    JustCalculated =>
        \A i \in 1..Len(calc.shares), row \in ReadingRows :
            LET sh == calc.shares[i]
            IN  ParseFloat(OrZeroText(row.electricity))
                    = <<sh.current.electricity_reading>>
                  => getUsageAmount(row.electricity,
                         getPreviousMonthReading(meter_readings, sh.unit_id,
                                                 calc.year, calc.month),
                         "electricity_reading")
                       = <<sh.electricityUsage>>

====
